---- MODULE Spec2Model ----
(***************************************************************************)
(* FacePass: embedding store, indexing services and search endpoints.      *)
(*                                                                         *)
(* Vectors are 2-dimensional fixed-point vectors <<x, y>> whose real value *)
(* is <<x, y>> / Scale.  All vectors used have an integral Euclidean norm, *)
(* so the L2 normalisation and the cosine similarity of pgvector's <=>     *)
(* operator are computed exactly (similarities are in 1/SimScale units).   *)
(***************************************************************************)
EXTENDS Integers, Sequences, FiniteSets, TLC

\* ---------------------------------------------------------------- bounds
MaxId == 3          \* surrogate ids handed out by the store: 1..MaxId
MaxBatch == 2       \* longest photo list given to index_batch
MaxFaces == 2       \* photos uploaded to events

\* ------------------------------------------------------------- constants
Scale == 5                  \* fixed-point unit of a vector component
SimScale == 100             \* similarity 1.0 is SimScale
RealtimeCap == 300          \* faces.py: min(total_photos, 300)
DefaultMaxPhotos == 1000    \* index-session endpoint default max_photos
SessionSearchThreshold == 70   \* faces.py Form(0.7)
ConfigThreshold == 50       \* config.py FACE_SIMILARITY_THRESHOLD default 0.5
MinIdLen == 5               \* photo id must be longer than this
MinHashLen == 10            \* timestamp-hash id must be longer than this
NotSupplied == -1           \* threshold form field left out (None)
MaxErrorsReturned == 10     \* indexing.py: errors[:10]
MaxRetries == 3             \* tasks.py: max_retries=3
EventSearchThreshold == 70  \* faces.py /search Form(0.7)
EventSearchLimit == 10      \* faces.py /search Form(10)

None == "None"

\* --------------------------------------------------------------- vectors
RECURSIVE IsqrtFrom(_, _)
IsqrtFrom(n, r) == IF (r + 1) * (r + 1) > n THEN r ELSE IsqrtFrom(n, r + 1)
Isqrt(n) == IsqrtFrom(n, 0)

Dot(a, b) == a[1] * b[1] + a[2] * b[2]

\* np.linalg.norm
Norm(v) == Isqrt(Dot(v, v))

\* embedding / norm when norm > 0, unchanged otherwise
Normalize(v) ==
    LET n == Norm(v)
    IN  IF n > 0 THEN <<(v[1] * Scale) \div n, (v[2] * Scale) \div n>> ELSE v

\* 1 - (a <=> b): one minus pgvector's cosine distance
Similarity(a, b) == (Dot(a, b) * SimScale) \div (Norm(a) * Norm(b))

\* ---------------------------------------------------------------- images
Face(v, c) == [vec |-> v, conf |-> c]

ImgAnna    == [kind |-> "ok", faces |-> <<Face(<<6, 8>>, 90)>>]
ImgAnna2   == [kind |-> "ok", faces |-> <<Face(<<3, 4>>, 80)>>]
ImgGroup   == [kind |-> "ok", faces |-> <<Face(<<3, 4>>, 85), Face(<<10, 0>>, 60)>>]
ImgBlank   == [kind |-> "ok", faces |-> <<>>]
ImgCorrupt == [kind |-> "corrupt", faces |-> <<>>]

\* FaceRecognitionService.get_embeddings
GetEmbeddings(img, ready) ==
    IF ~ready THEN [err |-> "RuntimeError", faces |-> <<>>]
    ELSE IF img.kind = "corrupt" THEN [err |-> "ValueError", faces |-> <<>>]
    ELSE [err |-> None, faces |-> img.faces]

\* variant of extract_single_embedding that raises when it finds no face
ExtractSingleEmbeddingRaises(img, ready) ==
    LET e == GetEmbeddings(img, ready)
    IN  IF e.err # None
        THEN [err |-> e.err, found |-> FALSE, vec |-> <<0, 0>>, conf |-> 0]
        ELSE IF Len(e.faces) = 0
        THEN [err |-> "ValueError", found |-> FALSE, vec |-> <<0, 0>>, conf |-> 0]
        ELSE [err |-> None, found |-> TRUE, vec |-> e.faces[1].vec,
              conf |-> e.faces[1].conf]

\* variant of extract_single_embedding that answers an image without a
\* face with a vector
ExtractSingleEmbeddingFound(img, ready) ==
    LET e == GetEmbeddings(img, ready)
    IN  IF e.err # None
        THEN [err |-> e.err, found |-> FALSE, vec |-> <<0, 0>>, conf |-> 0]
        ELSE IF Len(e.faces) = 0
        THEN [err |-> None, found |-> TRUE, vec |-> <<3, 4>>, conf |-> 0]
        ELSE [err |-> None, found |-> TRUE, vec |-> e.faces[1].vec,
              conf |-> e.faces[1].conf]

\* FaceRecognitionService.extract_single_embedding
ExtractSingleEmbedding(img, ready) ==
    LET e == GetEmbeddings(img, ready)
    IN  IF e.err # None
        THEN [err |-> e.err, found |-> FALSE, vec |-> <<0, 0>>, conf |-> 0]
        ELSE IF Len(e.faces) = 0
        THEN [err |-> None, found |-> FALSE, vec |-> <<0, 0>>, conf |-> 0]
        ELSE [err |-> None, found |-> TRUE, vec |-> e.faces[1].vec,
              conf |-> e.faces[1].conf]

\* ------------------------------------------------------- object storage
\* An object key is environment/photos/session/folder/file; the file name
\* is kept as the list of its dot-separated parts.
Key(e, s, f, n) == [env |-> e, sess |-> s, folder |-> f, name |-> n]

TokA1 == "1769586652601-a1"
TokA2 == "1769586652602-a2"
TokB1 == "1769586652700-b1"
TokB3 == "1769586652701-b3"
TokImg == "IMG_0042"
TokPic == "pic1"
TokNotes == "notes"

KeyA1 == Key("production", "A", "previews", <<TokA1, "jpg">>)
KeyA2 == Key("production", "A", "previews", <<TokA2, "jpg">>)
KeyB1 == Key("staging", "B", "previews", <<TokB1, "jpg">>)
KeyB1w == Key("staging", "B", "previews", <<TokB1, "webp">>)
KeyB2 == Key("staging", "B", "previews", <<TokImg, "png">>)
KeyB3 == Key("staging", "B", "previews", <<TokB3, "jpg">>)
KeyB4 == Key("staging", "B", "previews", <<TokPic, "jpg">>)
KeyB5 == Key("staging", "B", "previews", <<TokNotes, "txt">>)
KeyF1 == Key("production", "F", "previews", <<TokB3, "jpg">>)
KeyG1 == Key("production", "G", "previews", <<TokB1, "jpg">>)
KeyG2 == Key("production", "G", "previews", <<TokA1, "jpg">>)

\* the bucket, in listing order
Bucket == <<KeyA1, KeyA2, KeyB1, KeyB2, KeyB3, KeyB4, KeyB1w, KeyB5, KeyF1,
           KeyG1, KeyG2>>

\* the bytes behind each key
ObjectImage(k) ==
    CASE k = KeyA1 -> ImgAnna
      [] k = KeyA2 -> ImgAnna2
      [] k = KeyB1 -> ImgGroup
      [] k = KeyB1w -> ImgGroup
      [] k = KeyB2 -> ImgCorrupt
      [] k = KeyB3 -> ImgBlank
      [] k = KeyB4 -> ImgAnna
      [] k = KeyF1 -> ImgBlank
      [] k = KeyG1 -> ImgGroup
      [] k = KeyG2 -> ImgAnna
      [] OTHER -> ImgCorrupt

\* len(token), '-' in token, token parses as a UUID
TokenLen(t) ==
    CASE t \in {TokA1, TokA2, TokB1, TokB3} -> 16
      [] t = TokImg -> 8
      [] t = TokPic -> 4
      [] t = TokNotes -> 5
      [] OTHER -> 0
TokenHasDash(t) == t \in {TokA1, TokA2, TokB1, TokB3}
TokenIsUUID(t) == FALSE

\* core.s3.list_s3_objects: the keys under a prefix; folder None lists the
\* whole session folder.  An S3 failure raises S3DownloadError.
ListS3Objects(prefix, s3down) ==
    IF s3down THEN [err |-> "S3DownloadError", keys |-> <<>>]
    ELSE [err |-> None,
          keys |-> SelectSeq(Bucket, LAMBDA k :
                      /\ k.env = prefix.env
                      /\ k.sess = prefix.sess
                      /\ (prefix.folder = None \/ k.folder = prefix.folder))]

\* core.s3.download_image
DownloadImage(k, s3down) ==
    IF s3down THEN [err |-> "S3DownloadError", img |-> ImgCorrupt]
    ELSE [err |-> None, img |-> ObjectImage(k)]

\* ------------------------------------------- external session directory
\* photo_sessions rows of the Pixora database: id -> facepass_enabled
\* (E has no photos in storage, F one photo without a face, G a photo of
\* two faces and a photo of one)
PhotoSessions == [A |-> TRUE, B |-> TRUE, D |-> FALSE, E |-> TRUE, F |-> TRUE,
                  G |-> TRUE]
SessionIds == {"A", "B", "D", "X"}

\* variant of is_facepass_active that grants every session
IsFacepassActiveAlways(s) == TRUE

\* PhotoSession.is_facepass_active
IsFacepassActive(s) == PhotoSessions[s] = TRUE
SessionExists(s) == s \in DOMAIN PhotoSessions

\* ------------------------------------------------------ embedding store
VARIABLES
    store,       \* rows of face_embeddings
    nextId,      \* next value of the id sequence
    modelReady,  \* FaceRecognitionService.initialized
    resp,        \* what the last handler returned
    proc,        \* concurrent requests: where each one is in its handler
    faceTable,   \* rows of faces (main database) of the event uploads
    tasks        \* Celery: the process_face_embedding task of each face

vars == <<store, nextId, modelReady, resp, proc, faceTable, tasks>>

Row(i, p, s, v, c) ==
    [id |-> i, face_id |-> None, photo_id |-> p, event_id |-> None,
     session_id |-> s, embedding |-> v, confidence |-> c]

SessionRows(st, s) == {r \in st : r.session_id = s}
PairRows(st, p, s) == {r \in st : r.photo_id = p /\ r.session_id = s}

\* Query.first() without ORDER BY: which of several matching rows comes
\* first is up to the database; pick selects the outcome.
First(rows, pick) ==
    IF pick = "lo" THEN CHOOSE r \in rows : \A q \in rows : r.id <= q.id
    ELSE CHOOSE r \in rows : \A q \in rows : r.id >= q.id

Picks == {"lo", "hi"}

\* the state of the database as seen by the services: the committed
\* rows, the next id of the sequence, and the rows added to the request's
\* SQLAlchemy session that no commit has written yet (the session is made
\* with autoflush=False; closing it discards them)
Db(st, n) == [store |-> st, nextId |-> n, pending |-> {}]

\* variant of index_photo that inserts a row without looking for one
IndexPhotoSvcInsert(db, p, s, img, dbfail, pick) ==
    LET e == ExtractSingleEmbedding(img, modelReady)
        failed(msg) == [db |-> db, success |-> FALSE, confidence |-> 0,
                        faces |-> 0, error |-> msg]
    IN  IF e.err # None THEN failed(e.err)
        ELSE IF ~e.found THEN failed("No face detected")
        ELSE IF dbfail THEN failed("DatabaseError")
        ELSE [db |-> Db(db.store \cup {Row(db.nextId, p, s, Normalize(e.vec), e.conf)},
                        db.nextId + 1),
              success |-> TRUE, confidence |-> e.conf,
              faces |-> 1, error |-> None]

\* variant of index_photo that takes a photo without a face as indexed
IndexPhotoSvcNoFaceOk(db, p, s, img, dbfail, pick) ==
    LET e == ExtractSingleEmbedding(img, modelReady)
        failed(msg) == [db |-> db, success |-> FALSE, confidence |-> 0,
                        faces |-> 0, error |-> msg]
        v == Normalize(e.vec)
        existing == PairRows(db.store, p, s)
        old == First(existing, pick)
    IN  IF e.err # None THEN failed(e.err)
        ELSE IF dbfail THEN failed("DatabaseError")
        ELSE [db |-> IF existing # {}
                     THEN Db((db.store \ {old}) \cup
                               {[old EXCEPT !.embedding = v, !.confidence = e.conf]},
                             db.nextId)
                     ELSE Db(db.store \cup {Row(db.nextId, p, s, v, e.conf)},
                             db.nextId + 1),
              success |-> TRUE, confidence |-> e.conf,
              faces |-> IF e.found THEN 1 ELSE 0, error |-> None]

\* IndexingService.index_photo; dbfail makes the database raise
IndexPhotoSvc(db, p, s, img, dbfail, pick) ==
    LET e == ExtractSingleEmbedding(img, modelReady)
        failed(msg) == [db |-> db, success |-> FALSE, confidence |-> 0,
                        faces |-> 0, error |-> msg]
    IN  IF e.err # None THEN failed(e.err)
        ELSE IF ~e.found THEN failed("No face detected")
        ELSE IF dbfail THEN failed("DatabaseError")
        ELSE LET v == Normalize(e.vec)
                 existing == PairRows(db.store, p, s)
             IN  IF existing # {}
                 THEN LET old == First(existing, pick)
                          new == [old EXCEPT !.embedding = v, !.confidence = e.conf]
                      IN  [db |-> Db((db.store \ {old}) \cup {new}, db.nextId),
                           success |-> TRUE, confidence |-> e.conf,
                           faces |-> 1, error |-> None]
                 ELSE [db |-> Db(db.store \cup {Row(db.nextId, p, s, v, e.conf)},
                                 db.nextId + 1),
                       success |-> TRUE, confidence |-> e.conf,
                       faces |-> 1, error |-> None]

\* IndexingService.index_photo_from_s3
IndexPhotoFromS3(db, p, s, k, s3down, dbfail, pick) ==
    LET d == DownloadImage(k, s3down)
    IN  IF d.err # None
        THEN [db |-> db, success |-> FALSE, confidence |-> 0, faces |-> 0,
              error |-> "S3 download error"]
        ELSE IndexPhotoSvc(db, p, s, d.img, dbfail, pick)

\* variant of delete_session without the session filter
DeleteSessionSvcAll(db, s) ==
    [db |-> Db({}, db.nextId), count |-> Cardinality(db.store)]

\* IndexingService.delete_session
DeleteSessionSvc(db, s) ==
    [db |-> Db(db.store \ SessionRows(db.store, s), db.nextId),
     count |-> Cardinality(SessionRows(db.store, s))]

\* variant of the loop of index_batch that stops at the first failure
RECURSIVE IndexBatchLoopAbort(_, _, _, _, _, _, _)
IndexBatchLoopAbort(db, s, photos, i, s3bad, dbbad, acc) ==
    IF i > Len(photos) THEN [db |-> db, indexed |-> acc.indexed,
                             failed |-> acc.failed, errors |-> acc.errors]
    ELSE LET r == IndexPhotoFromS3(db, photos[i][1], s, photos[i][2],
                                   i \in s3bad, i \in dbbad, acc.pick)
         IN  IF r.success
             THEN IndexBatchLoopAbort(r.db, s, photos, i + 1, s3bad, dbbad,
                                      [acc EXCEPT !.indexed = @ + 1])
             ELSE [db |-> r.db, indexed |-> acc.indexed,
                   failed |-> acc.failed + 1,
                   errors |-> Append(acc.errors, <<photos[i][1], r.error>>)]

\* IndexingService.index_batch: photos is a list of <<photo_id, s3_key>>;
\* s3bad and dbbad are the positions at which storage / the database fail.
RECURSIVE IndexBatchLoop(_, _, _, _, _, _, _)
IndexBatchLoop(db, s, photos, i, s3bad, dbbad, acc) ==
    IF i > Len(photos) THEN [db |-> db, indexed |-> acc.indexed,
                             failed |-> acc.failed, errors |-> acc.errors]
    ELSE LET r == IndexPhotoFromS3(db, photos[i][1], s, photos[i][2],
                                   i \in s3bad, i \in dbbad, acc.pick)
         IN  IF r.success
             THEN IndexBatchLoop(r.db, s, photos, i + 1, s3bad, dbbad,
                                 [acc EXCEPT !.indexed = @ + 1])
             ELSE IndexBatchLoop(r.db, s, photos, i + 1, s3bad, dbbad,
                                 [acc EXCEPT !.failed = @ + 1,
                                             !.errors = Append(@, <<photos[i][1], r.error>>)])

IndexBatchSvc(db, s, photos, s3bad, dbbad, pick) ==
    IndexBatchLoop(db, s, photos, 1, s3bad, dbbad,
                   [indexed |-> 0, failed |-> 0, errors |-> <<>>, pick |-> pick])

\* ------------------------------------------------- PhotoIndexingService
ImageExtensions == {"jpg", "jpeg", "png", "webp", "bmp", "tiff"}

\* settings has no DOMAIN containing "staging": auto resolves to production
AutoEnvironment == "production"

\* PhotoIndexingService.get_session_s3_prefixes
GetSessionS3Prefixes(s, environment) ==
    LET env == IF environment = "auto" THEN AutoEnvironment ELSE environment
    IN  IF env \in {"production", "staging"}
        THEN << [env |-> env, sess |-> s, folder |-> "previews"],
                [env |-> env, sess |-> s, folder |-> None] >>
        ELSE <<>>

\* the first prefix of the list under which listing finds objects; a
\* listing that raises S3Error is skipped
RECURSIVE FirstObjects(_, _, _)
FirstObjects(prefixes, i, s3down) ==
    IF i > Len(prefixes) THEN <<>>
    ELSE LET l == ListS3Objects(prefixes[i], s3down)
         IN  IF l.err = None /\ Len(l.keys) > 0 THEN l.keys
             ELSE FirstObjects(prefixes, i + 1, s3down)

\* PhotoIndexingService.scan_session_photos
ScanSessionPhotos(s, environment, s3down) ==
    LET prefixes == GetSessionS3Prefixes(s, environment)
        found == FirstObjects(prefixes, 1, s3down)
        otherEnv == IF Len(prefixes) > 0 /\ prefixes[1].env = "production"
                    THEN "staging" ELSE "production"
        all == IF Len(found) = 0 /\ environment = "auto"
               THEN FirstObjects(GetSessionS3Prefixes(s, otherEnv), 1, s3down)
               ELSE found
    IN  SelectSeq(all, LAMBDA k :
            Len(k.name) > 1 /\ k.name[Len(k.name)] \in ImageExtensions)

\* PhotoIndexingService.extract_photo_id_from_s3_key
ExtractPhotoIdFromS3Key(k) ==
    LET photo_id == k.name[1]
    IN  IF TokenHasDash(photo_id) /\ TokenLen(photo_id) > MinHashLen THEN photo_id
        ELSE IF TokenIsUUID(photo_id) THEN photo_id
        ELSE IF TokenLen(photo_id) > MinIdLen THEN photo_id
        ELSE None

\* one row per detected face, ids in detection order
RECURSIVE FaceRows(_, _, _, _, _)
FaceRows(faces, i, n, p, s) ==
    IF i > Len(faces) THEN {}
    ELSE {Row(n + i - 1, p, s, Normalize(faces[i].vec), faces[i].conf)}
         \cup FaceRows(faces, i + 1, n, p, s)

\* PhotoIndexingService.process_single_photo.  dbfail: the query for an
\* existing row raises (outer handler: rollback, "Unexpected error");
\* savefail: saving the photo's last face raises inside the loop over the
\* faces, which returns "Database save failed" without a rollback, so the
\* rows added for the faces before it stay pending in the session.  The
\* commit of a photo writes every pending row of the session.
ProcessSinglePhoto(db, k, s, s3down, dbfail, savefail) ==
    LET photo_id == ExtractPhotoIdFromS3Key(k)
        out(ok, msg, d) == [db |-> d, success |-> ok, error |-> msg]
        rollback == Db(db.store, db.nextId)
    IN  IF photo_id = None THEN out(FALSE, "Could not extract photo ID", db)
        ELSE IF dbfail THEN out(FALSE, "Unexpected error", rollback)
        ELSE IF PairRows(db.store, photo_id, s) # {} THEN out(TRUE, None, db)
        ELSE LET d == DownloadImage(k, s3down)
             IN  IF d.err # None THEN out(FALSE, "Failed to download", db)
                 ELSE LET e == GetEmbeddings(d.img, modelReady)
                      IN  IF e.err # None
                          THEN out(FALSE, "Face extraction failed", db)
                          ELSE IF Len(e.faces) = 0 THEN out(TRUE, None, db)
                          ELSE IF savefail
                          THEN out(FALSE, "Database save failed",
                                   [store |-> db.store,
                                    nextId |-> db.nextId + Len(e.faces) - 1,
                                    pending |-> db.pending \cup
                                       FaceRows(SubSeq(e.faces, 1, Len(e.faces) - 1),
                                                1, db.nextId, photo_id, s)])
                          ELSE out(TRUE, None,
                                   Db(db.store \cup db.pending \cup
                                        FaceRows(e.faces, 1, db.nextId, photo_id, s),
                                      db.nextId + Len(e.faces)))

\* failures of the database injected into a session run are positions of
\* the run: 0 the count of check_session_indexed, i the query of photo i,
\* SaveFault(i) the save of the last face of photo i
SaveFault(i) == 0 - i

RECURSIVE IndexSessionLoop(_, _, _, _, _, _, _)
IndexSessionLoop(db, s, keys, i, s3bad, dbbad, acc) ==
    IF i > Len(keys) THEN [db |-> db, processed |-> acc.processed,
                           success |-> acc.success, errors |-> acc.errors]
    ELSE LET r == ProcessSinglePhoto(db, keys[i], s, i \in s3bad, i \in dbbad,
                                     SaveFault(i) \in dbbad)
         IN  IndexSessionLoop(r.db, s, keys, i + 1, s3bad, dbbad,
                 [processed |-> acc.processed + 1,
                  success |-> IF r.success THEN acc.success + 1 ELSE acc.success,
                  errors |-> IF r.success THEN acc.errors
                             ELSE Append(acc.errors, <<keys[i], r.error>>)])

\* variant of the slice that keeps the whole list
TakeAll(seq, n) == seq

\* photo_keys[:max_photos]
Take(seq, n) == IF Len(seq) > n THEN SubSeq(seq, 1, n) ELSE seq

\* PhotoIndexingService.index_session_photos
IndexSessionPhotosSvc(db, s, max_photos, s3down, s3bad, dbbad) ==
    LET none(errs) == [db |-> db, processed |-> 0, success |-> 0, errors |-> errs]
    IN  IF ~modelReady
        THEN none(<< <<None, "Face recognition service not initialized">> >>)
        ELSE LET photo_keys == ScanSessionPhotos(s, "auto", s3down)
             IN  IF Len(photo_keys) = 0 THEN none(<<>>)
                 ELSE IndexSessionLoop(db, s, Take(photo_keys, max_photos), 1,
                                       s3bad, dbbad,
                                       [processed |-> 0, success |-> 0,
                                        errors |-> <<>>])

\* variant of check_session_indexed that reports every session as indexed
CheckSessionIndexedAlways(db, s, dbfail) ==
    [is_indexed |-> TRUE, count |-> Cardinality(SessionRows(db.store, s))]

\* PhotoIndexingService.check_session_indexed: a database error is
\* swallowed and reported as (False, 0)
CheckSessionIndexed(db, s, dbfail) ==
    LET count == IF dbfail THEN 0 ELSE Cardinality(SessionRows(db.store, s))
    IN  [is_indexed |-> count > 0, count |-> count]

\* --------------------------------------------------- similarity queries
Min(a, b) == IF a < b THEN a ELSE b

\* variants of the WHERE clause: without the session filter, and with the
\* comparison against the threshold reversed
MatchingRowsAnySession(st, s, q, threshold) ==
    {r \in st : Similarity(r.embedding, q) >= threshold}

MatchingRowsBelow(st, s, q, threshold) ==
    {r \in SessionRows(st, s) : Similarity(r.embedding, q) <= threshold}

\* rows of session s with 1 - (embedding <=> q) >= threshold
MatchingRows(st, s, q, threshold) ==
    {r \in SessionRows(st, s) : Similarity(r.embedding, q) >= threshold}

\* the lists of k different rows of M in which similarity never rises
\* and no row left out is more similar than a row of the list
Ordered(M, k, sim) ==
    {f \in [1..k -> M] :
        /\ \A i, j \in 1..k : i < j => f[i] # f[j] /\ sim[f[i]] >= sim[f[j]]
        /\ \A r \in M : (\A i \in 1..k : f[i] # r) =>
                          (\A i \in 1..k : sim[f[i]] >= sim[r])}

\* ORDER BY similarity DESC LIMIT :limit over the rows M
OrderAndLimit(M, q, limit) ==
    Ordered(M, Min(Cardinality(M), limit), [r \in M |-> Similarity(r.embedding, q)])

\* variant of the query without the LIMIT clause
QueryNearestNoLimit(st, s, q, threshold, limit) ==
    OrderAndLimit(MatchingRows(st, s, q, threshold), q, Cardinality(st))

\* SELECT ... WHERE session_id = :s AND similarity >= :threshold
\* ORDER BY similarity DESC LIMIT :limit -- every answer the database may
\* give: rows of equal similarity come in any order.
QueryNearest(st, s, q, threshold, limit) ==
    OrderAndLimit(MatchingRows(st, s, q, threshold), q, limit)

\* the rows of a query answer as the handlers collect them
PhotoMatches(rows, q) ==
    [i \in 1..Len(rows) |->
        [photo_id |-> rows[i].photo_id,
         similarity |-> Similarity(rows[i].embedding, q),
         confidence |-> rows[i].confidence]]

\* ------------------------------------------------ external photo catalog
\* public.photos of the Pixora database, in ORDER BY created_at DESC order
Photo(i, s, n) == [id |-> i, photo_session_id |-> s, file_name |-> n]

Photos == << Photo(14, "B", <<TokB1, "webp">>),
             Photo(13, "B", <<TokB1, "jpg">>),
             Photo(12, "A", <<TokA2, "jpg">>),
             Photo(11, "A", <<TokA1, "jpg">>) >>

CatalogExtensions == {"jpg", "jpeg", "png", "webp"}

\* file_name = :id OR file_name = :id || '.jpg' OR ...
FileNameMatches(name, photo_id) ==
    \/ name = <<photo_id>>
    \/ \E x \in CatalogExtensions : name = <<photo_id, x>>

\* photo_details: the dictionary built from the catalog rows, keyed by
\* file_name.split('.')[0]; a later row replaces an earlier one
RECURSIVE PhotoDetails(_, _)
PhotoDetails(rows, i) ==
    IF i = 0 THEN [k \in {} |-> 0]
    ELSE LET d == PhotoDetails(rows, i - 1)
             key == rows[i].file_name[1]
         IN  [k \in DOMAIN d \cup {key} |-> IF k = key THEN rows[i] ELSE d[k]]

\* list.sort(key=similarity, reverse=True): stable insertion by similarity
RECURSIVE SortBySimilarity(_)
SortBySimilarity(ms) ==
    IF Len(ms) <= 1 THEN ms
    ELSE LET rest == SortBySimilarity(Tail(ms))
             h == Head(ms)
             before == SelectSeq(rest, LAMBDA m : m.similarity > h.similarity)
             after == SelectSeq(rest, LAMBDA m : m.similarity <= h.similarity)
         IN  before \o <<h>> \o after

\* a join that keeps the store results the catalog does not know, with
\* empty metadata
JoinWithCatalogKeepAll(s, photo_matches) ==
    [i \in 1..Len(photo_matches) |->
        [id |-> 0, file_name |-> <<photo_matches[i].photo_id>>,
         similarity |-> photo_matches[i].similarity]]

\* the join of the store's matches with the catalog (faces.py 612-688)
JoinWithCatalog(s, photo_matches) ==
    LET ids == {photo_matches[i].photo_id : i \in 1..Len(photo_matches)}
        rows == SelectSeq(Photos, LAMBDA r :
                   /\ r.photo_session_id = s
                   /\ \E p \in ids : FileNameMatches(r.file_name, p))
        details == PhotoDetails(rows, Len(rows))
        kept == SelectSeq(photo_matches, LAMBDA m : m.photo_id \in DOMAIN details)
    IN  SortBySimilarity(
            [i \in 1..Len(kept) |->
                [id |-> details[kept[i].photo_id].id,
                 file_name |-> details[kept[i].photo_id].file_name,
                 similarity |-> kept[i].similarity]])

\* ------------------------------------------------------------- handlers
\* inputs the handlers are exercised with
IndexPhotoIds == {TokB1}
IndexSessions == {"B"}
Uploads == {ImgAnna, ImgBlank}
Selfies == {ImgAnna, ImgBlank, ImgCorrupt}
Thresholds == {ConfigThreshold, SessionSearchThreshold}
Limits == {1, 50}
BatchItems == {<<TokA1, KeyA1>>, <<TokImg, KeyB2>>, <<TokB3, KeyB3>>}
BatchSessions == {"A"}
MaxPhotosInputs == {1, DefaultMaxPhotos}
\* positions of a run at which a failure is injected; position 0 of the
\* database failures of a session run is the count of check_session_indexed
BadPositions == {{}, {1}, {2}}
\* failures injected into a session run: storage down, the first download
\* failing, the database failing at the second photo
SessionFaults == { <<FALSE, {}, {}>>, <<TRUE, {}, {}>>,
                   <<FALSE, {1}, {}>>, <<FALSE, {}, {2}>> }

Batches == UNION {[1..n -> BatchItems] : n \in 1..MaxBatch}

\* the batches of the main specification
FewBatches == { <<<<TokA1, KeyA1>>>>,
                <<<<TokImg, KeyB2>>, <<TokA1, KeyA1>>>>,
                <<<<TokA1, KeyA1>>, <<TokB3, KeyB3>>>> }

\* a search that ends before the similarity query is exercised with one
\* choice of the inputs it never reads
SearchInputs(s, selfie, t, l) ==
    \/ s \in {"A", "B"} /\ selfie = ImgAnna /\ (t = SessionSearchThreshold \/ l = 50)
    \/ t = SessionSearchThreshold /\ l = 50 /\ selfie = ImgAnna
    \/ t = SessionSearchThreshold /\ l = 50 /\ s = "A"
    \/ t = SessionSearchThreshold /\ l = 50 /\ s = "B" /\ selfie = ImgBlank

\* at most one failure is injected into one batch, at a photo that would
\* otherwise be indexed
BatchFaults(photos, s3bad, dbbad) ==
    /\ s3bad \cup dbbad \subseteq {i \in 1..Len(photos) : photos[i][1] = TokA1}
    /\ s3bad = {} \/ dbbad = {}

NoFault(f) == f = <<FALSE, {}, {}>>

\* two requests served at the same time, each on its own database session
Workers == {1, 2}
Idle == [pc |-> "idle", session_id |-> None, photo_id |-> None, keys |-> <<>>,
         i |-> 0, faces |-> <<>>, existing |-> {}]

Init ==
    /\ store = {}
    /\ nextId = 1
    /\ modelReady \in BOOLEAN
    /\ resp = [op |-> "none"]
    /\ proc = [w \in Workers |-> Idle]
    /\ faceTable = {}
    /\ tasks = {}

Persist(db) ==
    /\ db.nextId <= MaxId + 1
    /\ store' = db.store
    /\ nextId' = db.nextId

\* POST /index with a file: IndexingService.index_photo
IndexPhoto(p, s, img, dbfail, pick) ==
    LET r == IndexPhotoSvc(Db(store, nextId), p, s, img, dbfail, pick)
    IN  /\ Persist(r.db)
        /\ resp' = [op |-> "index_photo", photo_id |-> p, session_id |-> s,
                    image |-> img, dbfail |-> dbfail,
                    success |-> r.success, confidence |-> r.confidence,
                    faces_detected |-> r.faces, error |-> r.error]
        /\ UNCHANGED <<modelReady, proc, faceTable, tasks>>

\* POST /index/batch: index_batch.  errors is the list the service
\* returns, errors_returned the part of it the response carries.
IndexBatch(s, photos, s3bad, dbbad, pick) ==
    LET r == IndexBatchSvc(Db(store, nextId), s, photos, s3bad, dbbad, pick)
    IN  /\ Persist(r.db)
        /\ resp' = [op |-> "index_batch", session_id |-> s, photos |-> photos,
                    s3bad |-> s3bad, dbbad |-> dbbad, raised |-> FALSE,
                    indexed |-> r.indexed, failed |-> r.failed,
                    errors |-> r.errors,
                    errors_returned |-> Take(r.errors, MaxErrorsReturned)]
        /\ UNCHANGED <<modelReady, proc, faceTable, tasks>>

\* DELETE /index/{session_id}: IndexingService.delete_session
DeleteSession(s) ==
    LET r == DeleteSessionSvc(Db(store, nextId), s)
    IN  /\ Persist(r.db)
        /\ resp' = [op |-> "delete_session", session_id |-> s,
                    embeddings_removed |-> r.count]
        /\ UNCHANGED <<modelReady, proc, faceTable, tasks>>

\* search_faces_in_session, lines 562-688: the similarity query on the
\* database d, then the join with the catalog.
QueryAndJoin(base, d, q, st, steps, nproc, succ) ==
    \E rows \in QueryNearest(d.store, base.session_id, q,
                             base.threshold, base.limit) :
        /\ Persist(d)
        /\ resp' = [base EXCEPT
              !.photo_matches = PhotoMatches(rows, q),
              !.matches = IF Len(rows) = 0 THEN <<>>
                          ELSE JoinWithCatalog(base.session_id, PhotoMatches(rows, q)),
              !.message = IF Len(rows) = 0
                          THEN "No matching faces found in this session"
                          ELSE None,
              !.indexing_status = st,
              !.steps = steps \cup {"query"} \cup
                        (IF Len(rows) = 0 THEN {} ELSE {"catalog"}),
              !.processed = nproc, !.successful = succ]

\* variant of the handler that runs the query whatever the indexing gave
AfterIndexingQueryAnyway(base, q, ix) ==
    QueryAndJoin(base, ix.db, q, "completed",
                 {"lookup", "extract", "count", "scan", "index"},
                 ix.processed, ix.success)

\* search_faces_in_session, lines 447-523: after index_session_photos
\* returned ix
AfterIndexing(base, q, ix) ==
    IF ix.success = 0
    THEN /\ Persist(ix.db)
         /\ resp' = [base EXCEPT
               !.steps = {"lookup", "extract", "count", "scan", "index"},
               !.message = "No photos could be indexed for this session",
               !.indexing_status = "indexing_failed",
               !.processed = ix.processed]
    ELSE QueryAndJoin(base, ix.db, q, "completed",
                      {"lookup", "extract", "count", "scan", "index"},
                      ix.processed, ix.success)

\* search_faces_in_session, lines 406-523: the check for stored
\* embeddings and the indexing of a session that has none
AutoIndex(base, db, q, chk, total_photos, s3down, s3bad, dbbad) ==
    IF chk.is_indexed
    THEN QueryAndJoin(base, db, q, "already_indexed",
                      {"lookup", "extract", "count"}, 0, 0)
    ELSE IF total_photos = 0
    THEN /\ Persist(db)
         /\ resp' = [base EXCEPT
               !.steps = {"lookup", "extract", "count", "scan"},
               !.message = "No photos found in this session",
               !.indexing_status = "no_photos"]
    ELSE AfterIndexing(base, q,
            IndexSessionPhotosSvc(db, base.session_id,
                                  Min(total_photos, RealtimeCap),
                                  s3down, s3bad, dbbad))

\* search_faces_in_session, lines 317-395: the session lookup and the
\* extraction of the selfie's embedding e
LookupAndExtract(base, db, e, s3down, s3bad, dbbad) ==
    LET s == base.session_id
        stop(r) == Persist(db) /\ resp' = r
    IN  IF ~SessionExists(s)
        THEN stop([base EXCEPT !.status = 404, !.message = "Session not found"])
        ELSE IF ~IsFacepassActive(s)
        THEN stop([base EXCEPT !.status = 403,
                     !.message = "FacePass is not enabled for this session"])
        ELSE IF e.err = "RuntimeError"
        THEN stop([base EXCEPT !.status = 500, !.steps = @ \cup {"extract"},
                     !.message = "Face recognition service error"])
        ELSE IF e.err = "ValueError"
        THEN stop([base EXCEPT !.status = 400, !.steps = @ \cup {"extract"},
                     !.message = "Invalid image"])
        ELSE IF ~e.found
        THEN stop([base EXCEPT !.steps = @ \cup {"extract"},
                     !.message = "No face detected in uploaded image"])
        ELSE AutoIndex(base, db, Normalize(Normalize(e.vec)),
                       CheckSessionIndexed(db, s, 0 \in dbbad),
                       Len(ScanSessionPhotos(s, "auto", s3down)),
                       s3down, s3bad, dbbad)

\* POST /faces/search-session: search_faces_in_session; a threshold left
\* out of the form takes the default of the parameter.  steps records
\* which stages of the handler ran, faults the failures injected, and
\* photo_matches the handler's list of that name (the rows of the query).
SearchSession(s, selfie, threshold, limit, s3down, s3bad, dbbad) ==
    /\ UNCHANGED <<modelReady, proc, faceTable, tasks>>
    /\ LookupAndExtract(
          [op |-> "search_session", session_id |-> s, selfie |-> selfie,
           supplied |-> threshold # NotSupplied,
           threshold |-> IF threshold = NotSupplied THEN SessionSearchThreshold
                         ELSE threshold,
           limit |-> limit,
           count_before |-> Cardinality(SessionRows(store, s)),
           faults |-> <<s3down, s3bad, dbbad>>,
           status |-> 200, photo_matches |-> <<>>, matches |-> <<>>,
           message |-> None,
           indexing_status |-> None, steps |-> {"lookup"},
           processed |-> 0, successful |-> 0],
          Db(store, nextId),
          ExtractSingleEmbedding(selfie, modelReady),
          s3down, s3bad, dbbad)

\* POST /v1/search: search_faces
SearchFaces(s, selfie, threshold, limit) ==
    LET t == IF threshold = NotSupplied THEN ConfigThreshold ELSE threshold
        base == [op |-> "search", session_id |-> s, selfie |-> selfie,
                 supplied |-> threshold # NotSupplied,
                 threshold |-> t, limit |-> limit,
                 count_before |-> Cardinality(SessionRows(store, s)),
                 status |-> 200, matches |-> <<>>, message |-> None,
                 steps |-> {}]
        e == ExtractSingleEmbedding(selfie, modelReady)
        q == Normalize(e.vec)
        embedding_count == Cardinality(SessionRows(store, s))
    IN  /\ UNCHANGED <<store, nextId, modelReady, proc, faceTable, tasks>>
        /\ IF e.err = "RuntimeError"
           THEN resp' = [base EXCEPT !.status = 500, !.steps = {"extract"},
                           !.message = "Face recognition service error"]
           ELSE IF e.err = "ValueError"
           THEN resp' = [base EXCEPT !.status = 400, !.steps = {"extract"},
                           !.message = "Invalid image"]
           ELSE IF ~e.found
           THEN resp' = [base EXCEPT !.steps = {"extract"},
                           !.message = "No face detected in uploaded image"]
           ELSE IF embedding_count = 0
           THEN resp' = [base EXCEPT !.status = 404, !.steps = {"extract", "count"},
                           !.message = "No indexed photos found for this session"]
           ELSE \E rows \in QueryNearest(store, s, q, t, limit) :
                   resp' = [base EXCEPT !.steps = {"extract", "count", "query"},
                              !.matches = PhotoMatches(rows, q)]

\* POST /faces/index-session/{session_id}: index_session_photos
IndexSession(s, force_reindex, max_photos, s3down, s3bad, dbbad) ==
    LET db == Db(store, nextId)
        base == [op |-> "index_session", session_id |-> s,
                 force_reindex |-> force_reindex, max_photos |-> max_photos,
                 count_before |-> Cardinality(SessionRows(store, s)),
                 status |-> 200, success |-> TRUE, already_indexed |-> FALSE,
                 processed |-> 0, successful |-> 0, embedding_count |-> 0,
                 errors |-> <<>>, steps |-> {"lookup"}]
        chk == CheckSessionIndexed(db, s, 0 \in dbbad)
        cleared == IF force_reindex /\ chk.count > 0
                   THEN DeleteSessionSvc(db, s).db ELSE db
        ix == IndexSessionPhotosSvc(cleared, s, max_photos, s3down, s3bad, dbbad)
    IN  /\ UNCHANGED <<modelReady, proc, faceTable, tasks>>
        /\ IF ~SessionExists(s)
           THEN Persist(db) /\ resp' = [base EXCEPT !.status = 404, !.success = FALSE]
           ELSE IF ~IsFacepassActive(s)
           THEN Persist(db) /\ resp' = [base EXCEPT !.status = 403, !.success = FALSE]
           ELSE IF chk.is_indexed /\ ~force_reindex
           THEN Persist(db) /\ resp' = [base EXCEPT !.already_indexed = TRUE,
                                         !.embedding_count = chk.count,
                                         !.steps = {"lookup", "count"}]
           ELSE /\ Persist(ix.db)
                /\ resp' = [base EXCEPT !.processed = ix.processed,
                              !.successful = ix.success,
                              !.embedding_count = ix.success,
                              !.errors = ix.errors,
                              !.steps = {"lookup", "count", "index"}]

Next ==
    \/ \E p \in IndexPhotoIds, s \in IndexSessions, img \in Uploads,
          dbfail \in BOOLEAN, pick \in Picks :
            /\ pick = "hi" => Cardinality(PairRows(store, p, s)) > 1 /\ ~dbfail
            /\ IndexPhoto(p, s, img, dbfail, pick)
    \/ \E s \in BatchSessions, photos \in FewBatches :
            IndexBatch(s, photos, {}, {}, "lo")
    \/ \E s \in SessionIds : DeleteSession(s)
    \/ \E s \in SessionIds, selfie \in Selfies, t \in Thresholds, l \in Limits,
          f \in SessionFaults :
            /\ SearchInputs(s, selfie, t, l)
            /\ ~NoFault(f) =>
                  /\ s \in {"A", "B"} /\ selfie = ImgAnna
                  /\ t = SessionSearchThreshold /\ l = 50
            /\ SearchSession(s, selfie, t, l, f[1], f[2], f[3])
    \/ \E s \in SessionIds, selfie \in Selfies,
          t \in {NotSupplied, SessionSearchThreshold}, l \in Limits :
            /\ SearchInputs(s, selfie, t, l)
            /\ SearchFaces(s, selfie, t, l)
    \/ \E s \in SessionIds, force \in BOOLEAN, m \in MaxPhotosInputs,
          f \in SessionFaults :
            /\ ~NoFault(f) \/ m # DefaultMaxPhotos => ~force
            /\ ~NoFault(f) => m = DefaultMaxPhotos
            /\ s \in {"X", "D"} => ~force /\ m = DefaultMaxPhotos /\ NoFault(f)
            /\ IndexSession(s, force, m, f[1], f[2], f[3])

\* index_batch with every batch up to MaxBatch photos and injected failures
NextBatch ==
    \/ \E s \in BatchSessions, photos \in Batches,
          s3bad \in BadPositions, dbbad \in BadPositions :
            /\ BatchFaults(photos, s3bad, dbbad)
            /\ IndexBatch(s, photos, s3bad, dbbad, "lo")
    \/ \E s \in BatchSessions : DeleteSession(s)

SpecBatch == Init /\ [][NextBatch]_vars

Spec == Init /\ [][Next]_vars

\* ------------------------------------------------- concurrent requests
\* Each request runs the statements of its handler in order; a statement
\* of one request may run between two statements of the other.  A query
\* sees the rows committed so far (READ COMMITTED); rows added to a
\* database session reach the table when that session commits.
ConcSessions == {"A"}
ConcPhotoIds == {TokA1}
ConcUploads == {ImgAnna, ImgAnna2}

\* search-session, index-session: check_session_indexed
AutoCheck(w, s) ==
    /\ proc[w].pc = "idle"
    /\ modelReady
    /\ LET chk == CheckSessionIndexed(Db(store, nextId), s, FALSE)
           keys == ScanSessionPhotos(s, "auto", FALSE)
       IN  proc' = [proc EXCEPT ![w] =
                IF chk.is_indexed \/ Len(keys) = 0 THEN Idle
                ELSE [Idle EXCEPT !.pc = "ps_query", !.session_id = s,
                                  !.keys = Take(keys, RealtimeCap), !.i = 1]]
    /\ UNCHANGED <<store, nextId, modelReady, resp, faceTable, tasks>>

\* process_single_photo: the query for an existing row, then the download
\* and the extraction
PsQuery(w) ==
    /\ proc[w].pc = "ps_query"
    /\ LET me == proc[w]
           k == me.keys[me.i]
           photo_id == ExtractPhotoIdFromS3Key(k)
           e == GetEmbeddings(DownloadImage(k, FALSE).img, modelReady)
           skip == \/ photo_id = None
                   \/ PairRows(store, photo_id, me.session_id) # {}
                   \/ e.err # None
                   \/ Len(e.faces) = 0
           next == IF me.i = Len(me.keys) THEN Idle ELSE [me EXCEPT !.i = @ + 1]
       IN  proc' = [proc EXCEPT ![w] =
                IF skip THEN next
                ELSE [me EXCEPT !.pc = "ps_commit", !.photo_id = photo_id,
                                !.faces = e.faces]]
    /\ UNCHANGED <<store, nextId, modelReady, resp, faceTable, tasks>>

\* process_single_photo: vector_db.add for each face, vector_db.commit()
PsCommit(w) ==
    /\ proc[w].pc = "ps_commit"
    /\ LET me == proc[w]
       IN  /\ Persist(Db(store \cup FaceRows(me.faces, 1, nextId, me.photo_id,
                                             me.session_id),
                         nextId + Len(me.faces)))
           /\ proc' = [proc EXCEPT ![w] =
                IF me.i = Len(me.keys) THEN Idle
                ELSE [me EXCEPT !.pc = "ps_query", !.i = @ + 1,
                                !.photo_id = None, !.faces = <<>>]]
    /\ UNCHANGED <<modelReady, resp, faceTable, tasks>>

\* index_photo: extraction, then the query for an existing row
IpQuery(w, p, s, img) ==
    /\ proc[w].pc = "idle"
    /\ LET e == GetEmbeddings(img, modelReady)
       IN  /\ e.err = None /\ Len(e.faces) > 0
           /\ \E pick \in Picks :
                proc' = [proc EXCEPT ![w] =
                    [Idle EXCEPT !.pc = "ip_commit", !.session_id = s,
                                 !.photo_id = p, !.faces = <<e.faces[1]>>,
                                 !.existing =
                                    IF PairRows(store, p, s) = {} THEN {}
                                    ELSE {First(PairRows(store, p, s), pick)}]]
    /\ UNCHANGED <<store, nextId, modelReady, resp, faceTable, tasks>>

\* index_photo: the update of the row found or the insert of a new one,
\* db.commit(); an update whose row is gone fails and is rolled back
IpCommit(w) ==
    /\ proc[w].pc = "ip_commit"
    /\ LET me == proc[w]
           v == Normalize(me.faces[1].vec)
           c == me.faces[1].conf
       IN  IF me.existing = {}
           THEN Persist(Db(store \cup {Row(nextId, me.photo_id, me.session_id, v, c)},
                           nextId + 1))
           ELSE LET old == CHOOSE r \in me.existing : TRUE
                    cur == {r \in store : r.id = old.id}
                IN  Persist(Db((store \ cur) \cup
                                  {[r EXCEPT !.embedding = v, !.confidence = c] :
                                      r \in cur},
                               nextId))
    /\ proc' = [proc EXCEPT ![w] = Idle]
    /\ UNCHANGED <<modelReady, resp, faceTable, tasks>>

\* delete_session on its own database session
ConcDelete(s) ==
    /\ Persist(DeleteSessionSvc(Db(store, nextId), s).db)
    /\ UNCHANGED <<modelReady, resp, proc, faceTable, tasks>>

NextConc ==
    \/ \E w \in Workers, s \in ConcSessions : AutoCheck(w, s)
    \/ \E w \in Workers : PsQuery(w)
    \/ \E w \in Workers : PsCommit(w)
    \/ \E w \in Workers, p \in ConcPhotoIds, s \in ConcSessions, img \in ConcUploads :
          IpQuery(w, p, s, img)
    \/ \E w \in Workers : IpCommit(w)
    \/ \E s \in ConcSessions : ConcDelete(s)

SpecConc == Init /\ [][NextConc]_vars

\* ------------------------------------------ the store's write operations
\* index_photo, delete_session and index_session_photos on two sessions,
\* with photos of one face, of several faces and of none
StorePhotoIds == {TokA1, TokB1}
StoreSessions == {"A", "B"}
StoreUploads == {ImgAnna, ImgAnna2, ImgBlank}

\* a batch of one photo that shows no face
StoreBatches == { << <<TokB3, KeyB3>> >> }

NextStore ==
    \/ \E p \in StorePhotoIds, s \in StoreSessions, img \in StoreUploads,
          dbfail \in BOOLEAN, pick \in Picks :
            /\ pick = "hi" => Cardinality(PairRows(store, p, s)) > 1
            /\ dbfail => img = ImgAnna /\ pick = "lo"
            /\ IndexPhoto(p, s, img, dbfail, pick)
    \/ \E s \in StoreSessions : DeleteSession(s)
    \/ IndexSession("B", FALSE, DefaultMaxPhotos, FALSE, {}, {})
    \/ \E photos \in StoreBatches : IndexBatch("B", photos, {}, {}, "lo")

SpecStore == Init /\ [][NextStore]_vars

\* ------------------------------------------- session runs under failures
\* search-session and index-session on a session with photos and on one
\* without, under more failures: every download failing, the count of
\* check_session_indexed failing
AutoSessions == {"A", "E"}
AutoSelfies == {ImgAnna, ImgBlank}
AutoFaults == { <<FALSE, {}, {}>>, <<TRUE, {}, {}>>,
                <<FALSE, {1, 2}, {}>>, <<FALSE, {}, {0}>> }

NextAuto ==
    \/ \E s \in AutoSessions, selfie \in AutoSelfies, f \in AutoFaults,
          t \in {NotSupplied, SessionSearchThreshold} :
            SearchSession(s, selfie, t, 50, f[1], f[2], f[3])
    \/ \E s \in AutoSessions, force \in BOOLEAN, m \in MaxPhotosInputs,
          f \in AutoFaults :
            IndexSession(s, force, m, f[1], f[2], f[3])
    \/ \E s \in AutoSessions : DeleteSession(s)

SpecAuto == Init /\ [][NextAuto]_vars

\* ------------------------------------------------- event uploads (legacy)
\* public.events of the main database
Events == {1}
EventIds == {1, 9}
EventUploads == {ImgAnna, ImgGroup, ImgBlank}

\* a row of face_embeddings as process_face_embedding creates it
EventRow(i, f, ev, v) ==
    [id |-> i, face_id |-> f, photo_id |-> None, event_id |-> ev,
     session_id |-> None, embedding |-> v, confidence |-> None]

EventRows(st, ev) == {r \in st : r.event_id = ev}

\* a row of faces; image is the object uploaded under its s3_key
FaceRecord(i, ev, img, c) ==
    [id |-> i, event_id |-> ev, image |-> img, confidence |-> c]

\* Face.confidence = c for the row with id f, if there is one
SetFaceConfidence(tbl, f, c) ==
    {IF r.id = f THEN [r EXCEPT !.confidence = c] ELSE r : r \in tbl}

\* POST /faces/upload: upload_face; s3fail makes upload_image raise
UploadFace(ev, img, s3fail) ==
    LET id == Cardinality(faceTable) + 1
        base == [op |-> "upload_face", event_id |-> ev, image |-> img,
                 status |-> 200, face_id |-> 0, confidence |-> 0]
    IN  /\ UNCHANGED <<store, nextId, modelReady, proc>>
        /\ IF ev \notin Events
           THEN /\ resp' = [base EXCEPT !.status = 404]
                /\ UNCHANGED <<faceTable, tasks>>
           ELSE IF s3fail
           THEN /\ resp' = [base EXCEPT !.status = 500]
                /\ UNCHANGED <<faceTable, tasks>>
           ELSE /\ id <= MaxFaces
                /\ faceTable' = faceTable \cup {FaceRecord(id, ev, img, 0)}
                /\ tasks' = tasks \cup {[face_id |-> id, event_id |-> ev,
                                         image |-> img, retries |-> 0]}
                /\ resp' = [base EXCEPT !.face_id = id]

\* workers.tasks.process_face_embedding, run by a worker for the queued
\* task t.  Any exception ends in self.retry, which queues the task
\* again until max_retries is used up.  s3down: the download raises;
\* maindown: the main database raises when the Face record is updated,
\* which on the path of a detected face is after the commit of the
\* embedding in the vector database.
ProcessFaceEmbedding(t, s3down, maindown) ==
    LET d == IF s3down THEN [err |-> "S3DownloadError", img |-> t.image]
             ELSE [err |-> None, img |-> t.image]
        e == GetEmbeddings(d.img, modelReady)
        base == [op |-> "process_face_embedding", face_id |-> t.face_id,
                 event_id |-> t.event_id, image |-> t.image,
                 retries |-> t.retries, status |-> "success",
                 confidence |-> 0, faces_detected |-> 0]
        retry == /\ tasks' = IF t.retries < MaxRetries
                             THEN (tasks \ {t}) \cup {[t EXCEPT !.retries = @ + 1]}
                             ELSE tasks \ {t}
                 /\ resp' = [base EXCEPT !.status =
                               IF t.retries < MaxRetries THEN "retry" ELSE "failed"]
    IN  /\ UNCHANGED <<modelReady, proc>>
        /\ IF d.err # None \/ e.err # None
           THEN /\ retry
                /\ UNCHANGED <<store, nextId, faceTable>>
           ELSE IF Len(e.faces) = 0
           THEN IF maindown
                THEN /\ retry
                     /\ UNCHANGED <<store, nextId, faceTable>>
                ELSE /\ faceTable' = SetFaceConfidence(faceTable, t.face_id, 0)
                     /\ tasks' = tasks \ {t}
                     /\ resp' = [base EXCEPT !.status = "no_face_detected"]
                     /\ UNCHANGED <<store, nextId>>
           ELSE /\ Persist(Db(store \cup {EventRow(nextId, t.face_id, t.event_id,
                                                   e.faces[1].vec)},
                              nextId + 1))
                /\ IF maindown
                   THEN /\ retry
                        /\ UNCHANGED faceTable
                   ELSE /\ faceTable' = SetFaceConfidence(faceTable, t.face_id,
                                                          e.faces[1].conf)
                        /\ tasks' = tasks \ {t}
                        /\ resp' = [base EXCEPT !.confidence = e.faces[1].conf,
                                      !.faces_detected = Len(e.faces)]

\* the rows of an answer joined with faces: FaceSearchResult per row whose
\* Face exists
RECURSIVE EventResults(_, _, _)
EventResults(rows, q, i) ==
    IF i > Len(rows) THEN <<>>
    ELSE LET fs == {f \in faceTable : f.id = rows[i].face_id}
         IN  (IF fs = {} THEN <<>>
              ELSE << [face_id |-> rows[i].face_id,
                       event_id |-> (CHOOSE f \in fs : TRUE).event_id,
                       similarity |-> Similarity(rows[i].embedding, q)] >>)
             \o EventResults(rows, q, i + 1)

\* POST /faces/search: search_faces of the faces router (by event).
\* query_embedding is the vector the handler puts into the query.
SearchEvent(ev, selfie, threshold, limit) ==
    LET t == IF threshold = NotSupplied THEN EventSearchThreshold ELSE threshold
        base == [op |-> "search_event", event_id |-> ev, selfie |-> selfie,
                 supplied |-> threshold # NotSupplied, threshold |-> t,
                 limit |-> limit, status |-> 200, results |-> <<>>,
                 query_embedding |-> <<0, 0>>, steps |-> {"lookup"}]
        e == ExtractSingleEmbedding(selfie, modelReady)
        q == e.vec
    IN  /\ UNCHANGED <<store, nextId, modelReady, proc, faceTable, tasks>>
        /\ IF ev \notin Events
           THEN resp' = [base EXCEPT !.status = 404]
           ELSE IF e.err = "RuntimeError"
           THEN resp' = [base EXCEPT !.status = 500, !.steps = @ \cup {"extract"}]
           ELSE IF e.err = "ValueError"
           THEN resp' = [base EXCEPT !.status = 400, !.steps = @ \cup {"extract"}]
           ELSE IF ~e.found
           THEN resp' = [base EXCEPT !.steps = @ \cup {"extract"}]
           ELSE \E rows \in OrderAndLimit(
                               {r \in EventRows(store, ev) :
                                   Similarity(r.embedding, q) >= t}, q, limit) :
                   resp' = [base EXCEPT !.steps = {"lookup", "extract", "query"},
                              !.query_embedding = q,
                              !.results = EventResults(rows, q, 1)]

NextEvent ==
    \/ \E ev \in EventIds, img \in EventUploads, s3fail \in BOOLEAN :
            UploadFace(ev, img, s3fail)
    \/ \E t \in tasks, s3down \in BOOLEAN :
            ProcessFaceEmbedding(t, s3down, FALSE)
    \/ \E ev \in EventIds, selfie \in Selfies,
          t \in {NotSupplied, ConfigThreshold}, l \in {1, EventSearchLimit} :
            SearchEvent(ev, selfie, t, l)

SpecEvent == Init /\ [][NextEvent]_vars

\* ------------------------------------------------ the join with the catalog
\* searches of session A after uploads under photo ids the catalog knows
\* (TokA1, TokA2) and one it does not know for this session (TokB1), with
\* faces at different distances from the selfie
ImgBob == [kind |-> "ok", faces |-> <<Face(<<10, 0>>, 70)>>]
CatalogPhotoIds == {TokA1, TokA2, TokB1}
CatalogUploads == {ImgAnna, ImgBob}

NextCatalog ==
    \/ \E p \in CatalogPhotoIds, img \in CatalogUploads :
            IndexPhoto(p, "A", img, FALSE, "lo")
    \/ \E limit \in Limits :
            SearchSession("A", ImgAnna, ConfigThreshold, limit, FALSE, {}, {})
    \/ DeleteSession("A")

SpecCatalog == Init /\ [][NextCatalog]_vars

\* -------------------------------------------------- the timeout middleware
\* app.main.timeout_middleware.  A path is the sequence of its segments.
SearchSessionTimeout == 600
IndexSessionTimeout == 900
DefaultTimeout == 30
TimeoutStatus == 408

\* extended_timeout_endpoints: path -> seconds
ExtendedTimeoutEndpoints ==
    { [path |-> <<"api", "v1", "faces", "search-session">>,
       timeout |-> SearchSessionTimeout],
      [path |-> <<"api", "v1", "faces", "index-session">>,
       timeout |-> IndexSessionTimeout] }

\* extended_timeout_endpoints.get(request.url.path, 30): the entry whose
\* key equals the path
TimeoutFor(path) ==
    LET hits == {e \in ExtendedTimeoutEndpoints : e.path = path}
    IN  IF hits = {} THEN DefaultTimeout ELSE (CHOOSE e \in hits : TRUE).timeout

\* the routes of the application the requests go to, and the status the
\* application answers with when it is given the time
SearchSessionPath == <<"api", "v1", "faces", "search-session">>
IndexSessionPath(s) == <<"api", "v1", "faces", "index-session", s>>
RequestPaths ==
    {SearchSessionPath} \cup {IndexSessionPath(s) : s \in SessionIds}
    \cup { <<"api", "v1", "faces", "index-session">>,
           <<"api", "v1", "faces", "search">>,
           <<"api", "v1", "v1", "index", "photo">>,
           <<"api", "v1", "health">> }
InnerStatus(path) ==
    IF path = <<"api", "v1", "faces", "index-session">> THEN 405 ELSE 200

\* seconds the application takes to answer
Durations == {1, 29, 30, 31, 120, 599, 600, 601, 750, 899, 900, 901}

\* one request through the middleware: asyncio.wait_for(call_next(request),
\* timeout); a handler that needs exactly the limit may or may not finish
Request(path, duration, wins) ==
    LET timeout == TimeoutFor(path)
        timed_out == duration > timeout \/ (duration = timeout /\ ~wins)
    IN  /\ resp' = [op |-> "request", path |-> path, duration |-> duration,
                    timeout |-> timeout, timed_out |-> timed_out,
                    status |-> IF timed_out THEN TimeoutStatus
                               ELSE InnerStatus(path)]
        /\ UNCHANGED <<store, nextId, modelReady, proc, faceTable, tasks>>

NextTimeout ==
    \E path \in RequestPaths, duration \in Durations, wins \in BOOLEAN :
        Request(path, duration, wins)

SpecTimeout == Init /\ [][NextTimeout]_vars

\* --------------------------------------------- sessions of faceless photos
\* searches and index runs, without injected failures, on a session whose
\* photos show faces (A) and on one whose only photo shows none (F)
FacelessSessions == {"A", "F"}

NextFaceless ==
    \/ \E s \in FacelessSessions, selfie \in AutoSelfies, limit \in Limits,
          t \in {NotSupplied, ConfigThreshold} :
            SearchSession(s, selfie, t, limit, FALSE, {}, {})
    \/ \E s \in FacelessSessions, force \in BOOLEAN, m \in MaxPhotosInputs :
            IndexSession(s, force, m, FALSE, {}, {})
    \/ \E s \in FacelessSessions : DeleteSession(s)

SpecFaceless == Init /\ [][NextFaceless]_vars

\* --------------------------------------------------- saves that fail
\* index-session and search-session on session G (a photo of two faces,
\* then a photo of one), with the save of a photo's last face failing or
\* the query of a photo failing; index_photo with a failing database
SaveSessions == {"G"}
SaveFaults == { {}, {SaveFault(1)}, {SaveFault(2)}, {1}, {SaveFault(1), 2} }

NextSave ==
    \/ \E s \in SaveSessions, force \in BOOLEAN, m \in MaxPhotosInputs,
          dbbad \in SaveFaults :
            IndexSession(s, force, m, FALSE, {}, dbbad)
    \/ \E s \in SaveSessions, limit \in Limits, dbbad \in SaveFaults :
            SearchSession(s, ImgAnna, ConfigThreshold, limit, FALSE, {}, dbbad)
    \/ \E s \in SaveSessions, dbfail \in BOOLEAN :
            IndexPhoto(TokA1, s, ImgAnna, dbfail, "lo")
    \/ \E s \in SaveSessions : DeleteSession(s)

SpecSave == Init /\ [][NextSave]_vars

\* ------------------------------------------------- retries of the task
\* uploads to an event and runs of process_face_embedding during which
\* storage or the main database may fail
RetryUploads == {ImgAnna, ImgBlank}

NextRetry ==
    \/ \E img \in RetryUploads : UploadFace(1, img, FALSE)
    \/ \E t \in tasks, s3down \in BOOLEAN, maindown \in BOOLEAN :
            /\ ~(s3down /\ maindown)
            /\ ProcessFaceEmbedding(t, s3down, maindown)

SpecRetry == Init /\ [][NextRetry]_vars

\* ============================================================ properties
SearchOps == {"search", "search_session"}

\* the last response is that of a search that ran the similarity query
Queried == resp.op \in SearchOps /\ "query" \in resp.steps

\* the rows of the query as the handler collected them
Found(r) == IF r.op = "search" THEN r.matches ELSE r.photo_matches

\* the query vector of a search whose selfie shows a face
QueryVector(r) == Normalize(r.selfie.faces[1].vec)

Range(f) == {f[i] : i \in DOMAIN f}

\* C1: after any sequence of indexing operations the store holds at most
\* one embedding record per (photo_id, session_id) pair, also for photos
\* in which several faces are detected.
C1_OneRecordPerPair ==
    \A r1, r2 \in store :
        (r1.photo_id = r2.photo_id /\ r1.session_id = r2.session_id) => r1 = r2

\* C2: index_photo called twice in a row with the same photo_id,
\* session_id and image leaves exactly one record for the pair, with the
\* vector and confidence the first call left, and the second call
\* reports success.
C2_IndexPhotoTwice ==
    [][ ( /\ resp.op = "index_photo" /\ resp.success
          /\ resp'.op = "index_photo"
          /\ resp'.photo_id = resp.photo_id
          /\ resp'.session_id = resp.session_id
          /\ resp'.image = resp.image
          /\ ~resp'.dbfail )
        => ( /\ resp'.success
             /\ Cardinality(PairRows(store', resp.photo_id, resp.session_id)) = 1
             /\ PairRows(store', resp.photo_id, resp.session_id)
                  = PairRows(store, resp.photo_id, resp.session_id) ) ]_vars

\* C3: a search scoped to a session returns only photo_ids that have an
\* embedding record stored under that session, whatever the other
\* sessions hold.
C3_SessionIsolation ==
    Queried =>
        /\ \A i \in 1..Len(Found(resp)) :
              PairRows(store, Found(resp)[i].photo_id, resp.session_id) # {}
        /\ resp.op = "search_session" =>
              \A i \in 1..Len(resp.matches) :
                 PairRows(store, resp.matches[i].file_name[1], resp.session_id) # {}

\* a search returned matches while another session held a record at least
\* as similar to the query as the threshold
C3_Witness ==
    /\ Queried
    /\ Len(Found(resp)) > 0
    /\ \E r \in store :
          /\ r.session_id # resp.session_id
          /\ Similarity(r.embedding, QueryVector(resp)) >= resp.threshold

\* the queries the monotonicity of the threshold is examined with
QueryVectors == {Normalize(ImgAnna.faces[1].vec), Normalize(ImgGroup.faces[2].vec)}
QueryThresholds == Thresholds \cup {SimScale}

\* every answer of A2 is within every answer of A1, A1 and A2 being the
\* answers the database may give to two queries
Within(A2, A1) == \A a1 \in A1, a2 \in A2 : Range(a2) \subseteq Range(a1)

\* the answer at t2 is within the answer at t1
AnswersNested(s, q, l, t1, t2) ==
    Within(QueryNearest(store, s, q, t2, l), QueryNearest(store, s, q, t1, l))

\* the limit does not cut the rows, or they all differ in similarity to q
NoTieIn(above, q, l) ==
    \/ Cardinality(above) <= l
    \/ \A r1, r2 \in above :
          r1 # r2 => Similarity(r1.embedding, q) # Similarity(r2.embedding, q)

\* the limit does not cut the answer at t1, or the session's records at
\* or above t1 all differ in similarity to q
NoTieAtCut(s, q, l, t1) ==
    NoTieIn({r \in SessionRows(store, s) : Similarity(r.embedding, q) >= t1}, q, l)

\* C4 (as stated): for a fixed store, session, query vector and limit the
\* records returned at threshold t2 are a subset of those returned at t1
\* whenever t1 <= t2.
C4_ThresholdMonotone ==
    \A s \in {"A", "B"}, q \in QueryVectors, l \in Limits,
       t1 \in QueryThresholds, t2 \in QueryThresholds :
        t1 <= t2 => AnswersNested(s, q, l, t1, t2)

\* C4 (amended): the same, provided the limit does not truncate the answer
\* at t1 or no two of the session's records at or above t1 have the same
\* similarity to the query vector.
C4_ThresholdMonotoneNoTies ==
    \A s \in {"A", "B"}, q \in QueryVectors, l \in Limits,
       t1 \in QueryThresholds, t2 \in QueryThresholds :
        (t1 <= t2 /\ NoTieAtCut(s, q, l, t1)) => AnswersNested(s, q, l, t1, t2)

\* a store in which raising the threshold makes a non-empty answer smaller
C4_Witness ==
    \E s \in {"A", "B"}, q \in QueryVectors, l \in Limits,
       t1 \in QueryThresholds, t2 \in QueryThresholds :
        /\ t1 < t2
        /\ NoTieAtCut(s, q, l, t1)
        /\ ~Within(QueryNearest(store, s, q, t1, l), QueryNearest(store, s, q, t2, l))
        /\ \E a2 \in QueryNearest(store, s, q, t2, l) : Range(a2) # {}

ItemFails(r, i) ==
    \/ ~modelReady
    \/ i \in r.s3bad \/ i \in r.dbbad
    \/ ObjectImage(r.photos[i][2]).kind = "corrupt"
    \/ Len(ObjectImage(r.photos[i][2]).faces) = 0

FailingItems(r) == {i \in 1..Len(r.photos) : ItemFails(r, i)}

\* the j-th smallest element of a set of positions
Nth(F, j) == CHOOSE i \in F : Cardinality({x \in F : x < i}) = j - 1

\* C6: for a batch of n items of which exactly k fail, index_batch does
\* not raise, returns indexed = n - k and failed = k with one error per
\* failed item naming its photo_id, and every non-failing item is stored
\* wherever it stands relative to the failing ones.
C6_BatchFailureIsolation ==
    resp.op = "index_batch" =>
        LET n == Len(resp.photos)
            F == FailingItems(resp)
            k == Cardinality(F)
        IN  /\ ~resp.raised
            /\ resp.indexed = n - k
            /\ resp.failed = k
            /\ Len(resp.errors) = k
            /\ \A j \in 1..k : resp.errors[j][1] = resp.photos[Nth(F, j)][1]
            /\ \A i \in (1..n) \ F :
                  PairRows(store, resp.photos[i][1], resp.session_id) # {}

\* a batch in which an item that can be indexed follows one that fails
C6_Witness ==
    /\ resp.op = "index_batch"
    /\ modelReady
    /\ \E i, j \in 1..Len(resp.photos) :
          i < j /\ ItemFails(resp, i) /\ ~ItemFails(resp, j)

\* storage holds at least one photo for the session, and every photo
\* there has a usable id of its own and shows exactly one face
SingleFaceStorage(s) ==
    LET keys == ScanSessionPhotos(s, "auto", FALSE)
    IN  /\ Len(keys) > 0
        /\ Len(keys) <= RealtimeCap
        /\ \A i \in 1..Len(keys) :
              /\ ExtractPhotoIdFromS3Key(keys[i]) # None
              /\ ObjectImage(keys[i]).kind = "ok"
              /\ Len(ObjectImage(keys[i]).faces) = 1
              /\ \A j \in 1..Len(keys) :
                    i # j => ExtractPhotoIdFromS3Key(keys[i])
                               # ExtractPhotoIdFromS3Key(keys[j])

\* the last response is that of a first search: a selfie with a face, an
\* enabled session with nothing stored, photos in storage, no failure
FirstSearch(ops) ==
    /\ resp.op \in ops
    /\ modelReady
    /\ resp.selfie.kind = "ok" /\ Len(resp.selfie.faces) > 0
    /\ resp.session_id \in DOMAIN PhotoSessions
    /\ PhotoSessions[resp.session_id]
    /\ resp.count_before = 0
    /\ SingleFaceStorage(resp.session_id)
    /\ resp.op = "search_session" => NoFault(resp.faults)

\* on return the session holds one record per photo in storage and the
\* matches are at most that many, each at or above the threshold
IndexedThenQueried ==
    LET n == Len(ScanSessionPhotos(resp.session_id, "auto", FALSE))
    IN  /\ resp.status = 200
        /\ Cardinality(SessionRows(store, resp.session_id)) = n
        /\ Len(resp.matches) <= n
        /\ \A i \in 1..Len(resp.matches) :
              resp.matches[i].similarity >= resp.threshold

\* C7 (as stated): a search with a face-bearing selfie on an enabled
\* session with zero stored embeddings and n single-face photos in
\* storage indexes them before the query: on return the stored count is
\* n and there are at most n matches, each with similarity >= threshold.
C7_AutoIndexOnFirstSearch == FirstSearch(SearchOps) => IndexedThenQueried

\* C7 (amended): the same for search_faces_in_session (POST
\* /faces/search-session); search_faces (POST /v1/search) answers 404 for
\* a session without embeddings and indexes nothing.
C7_AutoIndexOnFirstSessionSearch ==
    FirstSearch({"search_session"}) =>
        /\ IndexedThenQueried
        /\ {"index", "query"} \subseteq resp.steps

\* a first search on a session with two photos that returned matches
C7_Witness ==
    /\ FirstSearch({"search_session"})
    /\ Cardinality(SessionRows(store, resp.session_id)) = 2
    /\ Len(resp.matches) > 0

RefusedAtLookup(r) ==
    /\ r.session_id \notin DOMAIN PhotoSessions =>
          /\ r.status = 404 /\ r.message = "Session not found"
          /\ r.steps \subseteq {"lookup"}
    /\ (r.session_id \in DOMAIN PhotoSessions /\ ~PhotoSessions[r.session_id]) =>
          /\ r.status = 403
          /\ r.message = "FacePass is not enabled for this session"
          /\ r.steps \subseteq {"lookup"}

\* C9 (as stated): search first looks the session up; an unknown session
\* yields SessionNotFound and a session with search disabled yields
\* SearchNotEnabled, each before any extraction, indexing or store query.
C9_SessionLookupFirst == resp.op \in SearchOps => RefusedAtLookup(resp)

\* C9 (amended): the same for search_faces_in_session (POST
\* /faces/search-session); search_faces (POST /v1/search) does not look
\* the session up.
C9_SessionSearchLookupFirst == resp.op = "search_session" => RefusedAtLookup(resp)

\* a search on the disabled session while embeddings are stored
C9_Witness ==
    /\ resp.op = "search_session"
    /\ resp.session_id \in DOMAIN PhotoSessions
    /\ ~PhotoSessions[resp.session_id]
    /\ resp.status = 403
    /\ store # {}

\* C10: two indexing runs for the same session, interleaved at their
\* store reads, writes and commits, leave no two records for one
\* (photo_id, session_id) pair once both have finished.
C10_ConcurrentRunsNoDuplicates ==
    (\A w \in Workers : proc[w].pc = "idle") =>
        \A s \in ConcSessions, r \in store :
            Cardinality(PairRows(store, r.photo_id, s)) <= 1

\* the row r holds the pair, the vector and the confidence that the
\* index_photo call answered by a stores: the normalised vector of the
\* face of the image whose confidence the call reports
StoredBy(r, a) ==
    /\ r.photo_id = a.photo_id /\ r.session_id = a.session_id
    /\ r.confidence = a.confidence
    /\ \E i \in 1..Len(a.image.faces) :
          /\ a.image.faces[i].conf = a.confidence
          /\ r.embedding = Normalize(a.image.faces[i].vec)

\* C11: a successful index_photo for a (photo_id, session_id) pair that
\* has a record replaces that record's vector and confidence, keeps the
\* session's record count and leaves every other record unchanged; for a
\* pair without a record it adds exactly one record.
C11_UpsertInPlace ==
    [][ (resp'.op = "index_photo" /\ resp'.success) =>
          LET before == PairRows(store, resp'.photo_id, resp'.session_id)
          IN  IF before # {}
              THEN /\ \E old \in before, new \in store' :
                         /\ new.id = old.id
                         /\ StoredBy(new, resp')
                         /\ store' \ {new} = store \ {old}
                   /\ Cardinality(SessionRows(store', resp'.session_id))
                        = Cardinality(SessionRows(store, resp'.session_id))
              ELSE /\ \E new \in store' \ store :
                         /\ StoredBy(new, resp')
                         /\ \A r \in store : r.id # new.id
                         /\ store' = store \cup {new}
                   /\ Cardinality(store') = Cardinality(store) + 1 ]_vars

\* index_photo rewrote the record of a pair while
\* the store held records of other pairs: a record with a higher id was
\* inserted after the pair's record and before this call
C11_Witness ==
    /\ resp.op = "index_photo" /\ resp.success
    /\ \E r \in PairRows(store, resp.photo_id, resp.session_id) :
          /\ StoredBy(r, resp)
          /\ \E o \in store : o.id > r.id /\ o.session_id = r.session_id
          /\ \E o \in store : o.session_id # r.session_id

\* C12: delete_session(S) removes every record stored under S and
\* returns the number removed, so that count(S) is 0 afterwards; the
\* records of every other session are unchanged.
C12_DeleteSession ==
    [][ resp'.op = "delete_session" =>
          /\ SessionRows(store', resp'.session_id) = {}
          /\ resp'.embeddings_removed
                = Cardinality(SessionRows(store, resp'.session_id))
          /\ store' = store \ SessionRows(store, resp'.session_id)
          /\ \A s \in SessionIds \ {resp'.session_id} :
                SessionRows(store', s) = SessionRows(store, s) ]_vars

\* delete_session removed the records of one session while another
\* session held records
C12_Witness ==
    /\ resp.op = "delete_session"
    /\ resp.embeddings_removed > 1
    /\ SessionRows(store, resp.session_id) = {}
    /\ store # {}

\* the keys of the session run answered by a whose photo shows no face
FacelessKeys(a) ==
    {k \in Range(Take(ScanSessionPhotos(a.session_id, "auto", FALSE), a.max_photos)) :
        /\ ExtractPhotoIdFromS3Key(k) # None
        /\ ObjectImage(k) = ImgBlank}

\* the call answered by a, for a photo without a face while the model is
\* loaded, reported failure "No face detected" and the step wrote nothing
IndexPhotoNoFace(a, before, after) ==
    (a.op = "index_photo" /\ modelReady /\ a.image = ImgBlank) =>
        /\ ~a.success /\ a.faces_detected = 0
        /\ a.error = "No face detected"
        /\ after = before

\* the same for the items of a batch, which go through index_photo_from_s3
IndexBatchNoFace(a, before, after) ==
    (a.op = "index_batch" /\ modelReady /\ a.s3bad = {} /\ a.dbbad = {}) =>
        \A i \in 1..Len(a.photos) :
            ObjectImage(a.photos[i][2]) = ImgBlank =>
               /\ \E j \in 1..Len(a.errors) :
                     a.errors[j] = <<a.photos[i][1], "No face detected">>
               /\ PairRows(after, a.photos[i][1], a.session_id)
                    = PairRows(before, a.photos[i][1], a.session_id)

\* a session run (process_single_photo) wrote nothing for a photo without
\* a face; failed tells whether the run recorded an error for the photo
SessionRunNoFace(a, before, after, failed) ==
    (a.op = "index_session" /\ "index" \in a.steps /\ modelReady) =>
        \A k \in FacelessKeys(a) :
            PairRows(before, ExtractPhotoIdFromS3Key(k), a.session_id) = {} =>
               /\ PairRows(after, ExtractPhotoIdFromS3Key(k), a.session_id) = {}
               /\ failed <=> \E j \in 1..Len(a.errors) : a.errors[j][1] = k

\* C13: indexing a single photo in which no face is detected returns a
\* failure result with reason 'no face detected' (success false, zero
\* faces) and writes nothing to the store, on every single-photo indexing
\* path: index_photo, index_photo_from_s3 and process_single_photo.
C13_NoFaceIsFailure ==
    [][ /\ IndexPhotoNoFace(resp', store, store')
        /\ IndexBatchNoFace(resp', store, store')
        /\ SessionRunNoFace(resp', store, store', TRUE) ]_vars

\* C13 (amended): index_photo and index_photo_from_s3 return that failure
\* and write nothing; process_single_photo writes nothing either but
\* reports the photo as processed successfully, without an error.
C13_NoFaceByPath ==
    [][ /\ IndexPhotoNoFace(resp', store, store')
        /\ IndexBatchNoFace(resp', store, store')
        /\ SessionRunNoFace(resp', store, store', FALSE) ]_vars

\* index_photo was refused a photo without a face while records were stored
C13_Witness ==
    /\ resp.op = "index_photo" /\ modelReady /\ resp.image = ImgBlank
    /\ ~resp.success /\ resp.error = "No face detected"
    /\ PairRows(store, resp.photo_id, resp.session_id) # {}

\* the search answered by a got as far as the check for stored embeddings
ReachedIndexCheck(a) ==
    /\ a.op = "search_session"
    /\ a.session_id \in DOMAIN PhotoSessions /\ PhotoSessions[a.session_id]
    /\ modelReady /\ a.selfie.kind = "ok" /\ Len(a.selfie.faces) > 0

\* the empty result that describes the outcome st of the indexing
EmptyResult(a, st, msg) ==
    /\ a.status = 200
    /\ a.matches = <<>> /\ a.photo_matches = <<>>
    /\ a.indexing_status = st /\ a.message = msg
    /\ "query" \notin a.steps /\ "catalog" \notin a.steps

\* C14: a search on a never-indexed session whose scan finds zero photos,
\* or whose indexing yields zero successes, returns a normal empty-match
\* result whose message and status describe the indexing outcome; the
\* request does not fail and the similarity query is not run.
C14_EmptyResultWhenNothingIndexed ==
    [][ LET a == resp'
            keys == ScanSessionPhotos(a.session_id, "auto", a.faults[1])
            run == IndexSessionPhotosSvc(Db(store, nextId), a.session_id,
                                         Min(Len(keys), RealtimeCap),
                                         a.faults[1], a.faults[2], a.faults[3])
        IN  ( /\ ReachedIndexCheck(a)
              /\ SessionRows(store, a.session_id) = {} )
            => /\ Len(keys) = 0 =>
                    EmptyResult(a, "no_photos", "No photos found in this session")
               /\ (Len(keys) > 0 /\ run.success = 0) =>
                    EmptyResult(a, "indexing_failed",
                                "No photos could be indexed for this session")
               /\ (Len(keys) = 0 \/ run.success = 0) => store' = store ]_vars

\* a search on a session without records processed photos, none of them
\* with success, and returned the empty result
C14_Witness ==
    /\ ReachedIndexCheck(resp)
    /\ resp.count_before = 0
    /\ resp.processed > 0 /\ resp.successful = 0
    /\ resp.indexing_status = "indexing_failed"
    /\ resp.status = 200

\* the keys of a scan after the first n
Beyond(keys, n) == {keys[i] : i \in {j \in 1..Len(keys) : j > n}}

\* C15: one invocation of index_session_photos with cap max_photos
\* processes at most max_photos photos; scanned keys beyond the first
\* max_photos are neither downloaded nor stored in that invocation, and
\* exceeding the cap adds no error message.
C15_SafetyCap ==
    [][ (resp'.op = "index_session" /\ "index" \in resp'.steps) =>
          LET a == resp'
              keys == ScanSessionPhotos(a.session_id, "auto", FALSE)
              capped == Range(Take(keys, a.max_photos))
              ids(K) == {ExtractPhotoIdFromS3Key(k) : k \in K}
          IN  /\ a.processed <= a.max_photos
              /\ a.processed <= Len(keys)
              /\ \A r \in store' \ store : r.photo_id \in ids(capped)
              /\ modelReady =>
                    /\ Len(a.errors) <= a.processed
                    /\ \A j \in 1..Len(a.errors) : a.errors[j][1] \in capped
        ]_vars

\* an index-session run capped at one photo stored the first photo of a
\* session that has more
C15_Witness ==
    /\ resp.op = "index_session" /\ "index" \in resp.steps
    /\ resp.max_photos < Len(ScanSessionPhotos(resp.session_id, "auto", FALSE))
    /\ resp.processed = resp.max_photos
    /\ resp.errors = <<>>
    /\ SessionRows(store, resp.session_id) # {}
    /\ \A k \in Beyond(ScanSessionPhotos(resp.session_id, "auto", FALSE), resp.max_photos) :
          PairRows(store, ExtractPhotoIdFromS3Key(k), resp.session_id) = {}

\* the response a tells its caller that the indexing run failed
RunReportedFailed(a) ==
    IF a.op = "index_session" THEN ~a.success
    ELSE a.indexing_status = "indexing_failed"

\* C16: a session's indexing status only moves along NOT_INDEXED ->
\* INDEXING -> INDEXED, INDEXING -> FAILED (exactly when the run has zero
\* successes) and INDEXED -> INDEXING (only through a forced re-index);
\* an indexing run with zero successes is reported to the caller as
\* failed, not as success.  The code keeps no status: a session is
\* INDEXED when it has records, INDEXING while a run is in its handler,
\* and FAILED when the response of the run says so.
C16_IndexingStatus ==
    [][ (resp'.op \in {"index_session", "search_session"} /\ "index" \in resp'.steps) =>
          /\ RunReportedFailed(resp') <=> resp'.successful = 0
          /\ SessionRows(store, resp'.session_id) # {} =>
                (resp'.op = "index_session" /\ resp'.force_reindex) ]_vars

\* v has the length of a unit vector
IsUnit(v) == Dot(v, v) = Scale * Scale

\* C17: every embedding written to the store and every query vector used
\* in a similarity query has first passed through the L2 normalizer: no
\* path stores or queries with a raw extractor vector, so stored and query
\* vectors are never a mix of normalized and un-normalized.
C17_NormalizedEverywhere ==
    /\ \A r \in store : IsUnit(r.embedding)
    /\ (resp.op = "search_event" /\ "query" \in resp.steps) =>
          IsUnit(resp.query_embedding)

\* C18: a storage-layer failure during a store operation (count, upsert,
\* nearest-neighbour query, delete_session) surfaces to the calling
\* orchestrator as an error carrying the cause; no store operation
\* reports a failure as a normal value such as a count of zero.  Here: a
\* search whose count of the session's records failed ends in an error.
C18_StoreFailureSurfaces ==
    (resp.op = "search_session" /\ "count" \in resp.steps /\ 0 \in resp.faults[3])
        => resp.status = 500

\* the operation answered by a needed the extractor
NeedsExtraction(a) ==
    \/ a.op = "search_session" /\ "extract" \in a.steps
    \/ a.op = "index_session" /\ "index" \in a.steps

\* C19: when the face model failed to load, every indexing or search
\* operation that needs extraction propagates a fault to its caller (it
\* is not converted into a per-photo failure or an empty successful
\* result), and the core makes no internal retry.
C19_ModelNotLoadedIsFault ==
    (~modelReady /\ NeedsExtraction(resp)) => resp.status = 500

\* the searches of the three routers
AllSearchOps == {"search", "search_session", "search_event"}

\* C20: when the caller supplies no threshold, every search entry point
\* uses the configured FACE_SIMILARITY_THRESHOLD as the effective
\* threshold (not a literal fixed in the code), and the effective
\* threshold reported in the result equals the one used in the query.
C20_ConfiguredDefaultThreshold ==
    (resp.op \in AllSearchOps /\ "query" \in resp.steps /\ ~resp.supplied)
        => resp.threshold = ConfigThreshold

\* the catalog rows of session s that photo id p resolves to: file_name
\* equal to p, or to p followed by one image extension
CatalogRowsFor(s, p) ==
    {k \in 1..Len(Photos) :
        /\ Photos[k].photo_session_id = s
        /\ \/ Photos[k].file_name = <<p>>
           \/ /\ Len(Photos[k].file_name) = 2
              /\ Photos[k].file_name[1] = p
              /\ Photos[k].file_name[2] \in {"jpg", "jpeg", "png", "webp"}}

SearchedCatalog == resp.op = "search_session" /\ "catalog" \in resp.steps

ForcedReindex ==
    /\ resp'.op = "index_session" /\ resp'.status = 200
    /\ resp'.force_reindex
    /\ SessionRows(store, resp'.session_id) # {}

\* C22: a forced re-index of an indexed session deletes all of the
\* session's existing records before it rebuilds: no record that existed
\* before the call is in the store after it, and the records of other
\* sessions are unchanged.
C22_ForcedReindexReplaces ==
    [][ForcedReindex =>
          /\ SessionRows(store, resp'.session_id) \cap store' = {}
          /\ store' \ SessionRows(store', resp'.session_id)
               = store \ SessionRows(store, resp'.session_id)]_vars

\* C24: scan_session_photos returns an empty list only when listing
\* succeeded and found no image keys; a failed listing raises S3Error, so
\* a search is answered "no_photos" (the caller's answer to an empty
\* scan) only when S3 could be listed.
C24_EmptyScanOnlyWhenListed ==
    (resp.op = "search_session" /\ "scan" \in resp.steps
        /\ resp.indexing_status = "no_photos")
    => ~resp.faults[1]

\* a run of index-session without force_reindex on a session that has
\* records
UnforcedOnIndexed ==
    /\ resp'.op = "index_session" /\ resp'.status = 200
    /\ ~resp'.force_reindex
    /\ SessionRows(store, resp'.session_id) # {}

\* C23: index-session without force_reindex on a session that already has
\* stored embeddings leaves the store unchanged, does not scan storage
\* (the scan is the first stage of the indexing run), and reports
\* already_indexed with the session's current number of embeddings.
C23_AlreadyIndexedIsNoOp ==
    [][UnforcedOnIndexed =>
          /\ store' = store
          /\ "index" \notin resp'.steps
          /\ resp'.already_indexed
          /\ resp'.embedding_count =
                Cardinality(SessionRows(store, resp'.session_id))]_vars

\* C25: the middleware runs a request to the search-session endpoint under
\* a limit of 600 s, a request to the index-session endpoint (its path
\* ends with the session id) under 900 s and every other request under
\* 30 s, and a request that exceeds its limit is answered 408.
C25_TimeoutLimits ==
    resp.op = "request" =>
        /\ resp.timeout =
              IF resp.path = SearchSessionPath THEN 600
              ELSE IF \E s \in SessionIds : resp.path = IndexSessionPath(s)
              THEN 900
              ELSE IF resp.path = <<"api", "v1", "faces", "index-session">>
              THEN resp.timeout
              ELSE 30
        /\ resp.duration > resp.timeout => resp.status = 408

\* a search of a session whose selfie shows no face
FacelessSearch ==
    /\ resp'.op = "search_session"
    /\ resp'.selfie.faces = <<>>

\* C26: a session search whose selfie has no detectable face does not
\* check, scan or index the session and leaves the embedding store as it
\* was, also when the session has no stored embeddings.
C26_NoFaceStopsBeforeIndexing ==
    [][FacelessSearch =>
          /\ store' = store /\ nextId' = nextId
          /\ resp'.steps \cap {"count", "scan", "index", "query"} = {}
          /\ resp'.matches = <<>>]_vars

\* a search with a faceless selfie on a session that has photos in
\* storage and no stored embeddings, answered "no face"
C26_Witness ==
    /\ resp.op = "search_session" /\ resp.session_id = "A"
    /\ resp.selfie = ImgBlank
    /\ resp.count_before = 0 /\ SessionRows(store, "A") = {}
    /\ resp.status = 200
    /\ resp.message = "No face detected in uploaded image"
    /\ resp.faults = <<FALSE, {}, {}>>

\* the session runs that reported at least one successful photo
RunSucceeded ==
    /\ resp.op \in {"search_session", "index_session"}
    /\ "index" \in resp.steps
    /\ resp.successful >= 1

\* C27: once index_session_photos has returned success_count >= 1 for a
\* session, the session has stored embeddings (check_session_indexed
\* counts more than zero), so the next search of that session does not
\* index it again.
C27_SuccessMeansIndexed ==
    RunSucceeded =>
        CheckSessionIndexed(Db(store, nextId), resp.session_id, FALSE).is_indexed

\* C28: the match list of a session search holds each photo at most once:
\* no two of its entries have the same photo identifier.
C28_EachPhotoOnce ==
    resp.op = "search_session" =>
        \A i, j \in 1..Len(resp.matches) :
            i < j => /\ resp.matches[i].id # resp.matches[j].id
                     /\ resp.matches[i].file_name[1] # resp.matches[j].file_name[1]

\* the photo ids of the keys a session run reported as failed
FailedPhotoIds(a) ==
    {ExtractPhotoIdFromS3Key(a.errors[j][1]) : j \in 1..Len(a.errors)}

\* C29: when index_photo or process_single_photo reports a failure for a
\* photo, the call leaves no record of that photo added or changed in the
\* store, also after later photos of the same run have committed.
C29_FailureLeavesNoRecord ==
    [][ /\ (resp'.op = "index_photo" /\ ~resp'.success) => store' = store
        /\ (resp'.op = "index_session" /\ "index" \in resp'.steps /\ modelReady)
              => \A r \in store' \ store :
                    r.photo_id \notin FailedPhotoIds(resp') ]_vars

\* the faces whose task has finished: uploaded, and no longer queued
FinishedFaces ==
    {f.id : f \in faceTable} \ {t.face_id : t \in tasks}

\* C30: process_face_embedding is retried at most 3 times, and once the
\* task of a face has finished the vector store holds at most one
\* embedding record for that face_id, whichever step failed and was
\* retried.
C30_OneEmbeddingPerFace ==
    /\ \A t \in tasks : t.retries <= 3
    /\ \A f \in FinishedFaces :
          Cardinality({r \in store : r.face_id = f}) <= 1

====
